---------------------------- MODULE Spec2Model ----------------------------
(***************************************************************************)
(* A model of dot-grid-app.py (class DotGridApp): the grid and its CSV     *)
(* ingestion, the layout arithmetic, the three drawing backends (Tk canvas *)
(* preview, Pillow raster image, SVG text) and the export handler.         *)
(*                                                                         *)
(* Numbers.  dot_radius and spacing are Python floats.  The model holds a  *)
(* length as an integer count of 1/Q, so that spacing/2 + j*spacing is a   *)
(* count of 1/(2*Q).  For Q a power of two these values and every          *)
(* operation on them are exact in binary floating point too.               *)
(*                                                                         *)
(* Text.  A CSV cell is a sequence of one-character strings; colours are   *)
(* strings built by "\o".                                                   *)
(***************************************************************************)
EXTENDS Integers, Sequences, FiniteSets, TLC

(***************************************************************************)
(* Bounds of the model.                                                    *)
(***************************************************************************)
\* most rows of a CSV file
MaxRows == 3
\* most cells of a CSV file, over all its rows
MaxCells == 3
\* a length is a whole number of 1/Q
Q == 4
\* most rows, and most columns, of a grid handed to the drawing code directly
MaxSide == 2

(***************************************************************************)
(* Constants of the program.                                               *)
(***************************************************************************)
DefaultRows == 10
DefaultCols == 20
DefaultRadius == 6
DefaultSpacing == 18

DefaultBg == "#111111"
DefaultInactive == "#555555"
DefaultActive == "#00ff55"

Formats == {"PNG", "JPEG", "SVG"}

(***************************************************************************)
(* Text: str.strip()                                                       *)
(***************************************************************************)
Whitespace == {" ", "\t"}

RECURSIVE LStrip(_)
LStrip(s) ==
    IF s # <<>> /\ Head(s) \in Whitespace THEN LStrip(Tail(s)) ELSE s

RECURSIVE RStrip(_)
RStrip(s) ==
    IF s # <<>> /\ s[Len(s)] \in Whitespace
    THEN RStrip(SubSeq(s, 1, Len(s) - 1))
    ELSE s

Strip(s) == RStrip(LStrip(s))

(***************************************************************************)
(* load_csv: from the rows csv.reader returns to the grid                  *)
(***************************************************************************)
\* any(cell.strip() for cell in r)
RowHasText(r) == \E k \in 1..Len(r) : Strip(r[k]) # <<>>

\* the filter left out: blank rows stay
SurvivingRowsKeepAll(raw) == raw

\* rows = [r for r in rows if any(cell.strip() for cell in r)]
RECURSIVE SurvivingRows(_)
SurvivingRows(raw) ==
    IF raw = <<>> THEN <<>>
    ELSE IF RowHasText(Head(raw))
         THEN <<Head(raw)>> \o SurvivingRows(Tail(raw))
         ELSE SurvivingRows(Tail(raw))

\* max(len(r) for r in rows), rows not empty
RECURSIVE MaxLen(_)
MaxLen(rs) ==
    IF Len(rs) = 1 THEN Len(Head(rs))
    ELSE LET m == MaxLen(Tail(rs))
         IN  IF Len(Head(rs)) > m THEN Len(Head(rs)) ELSE m

\* the padding left out
PadRowNone(r, n) == r

\* row = list(r) + [""] * (max_cols - len(r))
PadRow(r, n) == r \o [k \in 1..(n - Len(r)) |-> <<>>]

\* the cell tested as read, without strip()
CellValueUntrimmed(cell) == IF cell # <<>> /\ cell # <<"0">> THEN 1 ELSE 0

\* if cell_str and cell_str != "0": 1 else 0
CellValue(cell) ==
    LET cell_str == Strip(cell)
    IN  IF cell_str # <<>> /\ cell_str # <<"0">> THEN 1 ELSE 0

\* the data built by the loop over the surviving rows
Ingest(rs) ==
    LET max_cols == MaxLen(rs)
    IN  [i \in 1..Len(rs) |->
            LET row == PadRow(rs[i], max_cols)
            IN  [j \in 1..Len(row) |-> CellValue(row[j])]]

(***************************************************************************)
(* _grid_dimensions and the geometry of one dot                            *)
(***************************************************************************)
\* int(x) of a float x held as a count of 1/Q: truncation towards zero
IntOf(x) == IF x >= 0 THEN x \div Q ELSE -((-x) \div Q)

\* the margin taken from the dot, 2 * r, instead of one spacing
GridDimensionsDotMargin(d, r, s) ==
    IF d = <<>>
    THEN [rows |-> 0, cols |-> 0, width |-> 0, height |-> 0]
    ELSE [rows |-> Len(d), cols |-> Len(d[1]),
          width |-> IntOf(Len(d[1]) * s + 2 * r),
          height |-> IntOf(Len(d) * s + 2 * r)]

\* the size rounded up instead of truncated
GridDimensionsCeil(d, r, s) ==
    IF d = <<>>
    THEN [rows |-> 0, cols |-> 0, width |-> 0, height |-> 0]
    ELSE [rows |-> Len(d), cols |-> Len(d[1]),
          width |-> IntOf(Len(d[1]) * s + s + Q - 1),
          height |-> IntOf(Len(d) * s + s + Q - 1)]

\* _grid_dimensions(): d is self.data, r and s the radius and the spacing in 1/Q
GridDimensions(d, r, s) ==
    IF d = <<>>
    THEN [rows |-> 0, cols |-> 0, width |-> 0, height |-> 0]
    ELSE LET rows == Len(d)
             cols == Len(d[1])
         IN  [rows |-> rows, cols |-> cols,
              width |-> IntOf(cols * s + s),
              height |-> IntOf(rows * s + s)]

\* the half spacing left out: k * spacing
CentreFromEdge(k, s) == 2 * k * s

\* spacing / 2 + k * spacing, a count of 1/(2*Q); k is the 0-based index
Centre(k, s) == s + 2 * k * s

\* (cx - r, cy - r, cx + r, cy + r), counts of 1/(2*Q)
BBox(i, j, r, s) ==
    LET cx == Centre(j, s)
        cy == Centre(i, s)
    IN  <<cx - 2 * r, cy - 2 * r, cx + 2 * r, cy + 2 * r>>

\* self.active_color if self.data[i][j] else self.inactive_color
DotColor(d, i, j, st) ==
    IF d[i + 1][j + 1] # 0 THEN st.active_color ELSE st.inactive_color

\* for i in range(rows): for j in range(cols): the k-th pass, k from 1
RowOf(k, cols) == (k - 1) \div cols
ColOf(k, cols) == (k - 1) % cols

(***************************************************************************)
(* draw_grid: the Tk canvas                                                *)
(***************************************************************************)
\* the canvas as tk.Canvas(canvas_frame, bg=self.bg_color) makes it: its
\* size is Tk's own default ("10c" by "7c")
FreshCanvas(bg) ==
    [width |-> "10c", height |-> "7c", bg |-> bg, items |-> <<>>]

\* canvas.create_oval(cx - r, cy - r, cx + r, cy + r, fill=color, outline="")
CanvasOval(d, i, j, st) ==
    [bbox |-> BBox(i, j, st.dot_radius, st.spacing),
     fill |-> DotColor(d, i, j, st), outline |-> ""]

\* draw_grid(): the canvas c after it, for data d and style st
DrawGrid(c, d, st) ==
    LET dim == GridDimensions(d, st.dot_radius, st.spacing)
    IN  IF dim.rows = 0 \/ dim.cols = 0
        THEN [c EXCEPT !.items = <<>>]
        ELSE [width |-> dim.width, height |-> dim.height, bg |-> st.bg_color,
              items |-> [k \in 1..(dim.rows * dim.cols) |->
                            CanvasOval(d, RowOf(k, dim.cols), ColOf(k, dim.cols), st)]]

(***************************************************************************)
(* _export_raster: the Pillow image handed to img.save                     *)
(***************************************************************************)
\* draw.ellipse((cx - r, cy - r, cx + r, cy + r), fill=color, outline=None)
RasterEllipse(d, i, j, st) ==
    [bbox |-> BBox(i, j, st.dot_radius, st.spacing),
     fill |-> DotColor(d, i, j, st), outline |-> "None"]

RasterImage(d, st, fmt, width, height) ==
    LET rows == Len(d)
        cols == Len(d[1])
    IN  [kind |-> fmt, mode |-> "RGB", width |-> width, height |-> height,
         bg |-> st.bg_color,
         shapes |-> [k \in 1..(rows * cols) |->
                        RasterEllipse(d, RowOf(k, cols), ColOf(k, cols), st)]]

(***************************************************************************)
(* _export_svg: the SVG text                                               *)
(***************************************************************************)
\* the decimal digits of a natural number, most significant first
RECURSIVE Digits(_)
Digits(n) == IF n < 10 THEN <<n>> ELSE Digits(n \div 10) \o <<n % 10>>

\* the digits after the point of rem / den, 0 <= rem < den, by long division;
\* repr() prints at most 17 significant digits
RECURSIVE FracDigits(_, _, _)
FracDigits(rem, den, left) ==
    IF rem = 0 \/ left = 0 THEN <<>>
    ELSE <<(rem * 10) \div den>> \o FracDigits((rem * 10) % den, den, left - 1)

\* f"{x}" of a non-negative float x held as a count v of 1/(2*Q): "27.75", "9.0"
FloatText(v) ==
    LET f == FracDigits(v % (2 * Q), 2 * Q, 17)
    IN  [whole |-> Digits(v \div (2 * Q)), frac |-> IF f = <<>> THEN <<0>> ELSE f]

\* cx and cy taken from the wrong loop index
SvgCircleSwapped(d, i, j, st) ==
    [cx |-> FloatText(Centre(i, st.spacing)),
     cy |-> FloatText(Centre(j, st.spacing)),
     r |-> FloatText(2 * st.dot_radius),
     fill |-> DotColor(d, i, j, st)]

\* <circle cx="{cx}" cy="{cy}" r="{r}" fill="{color}" />
SvgCircle(d, i, j, st) ==
    [cx |-> FloatText(Centre(j, st.spacing)),
     cy |-> FloatText(Centre(i, st.spacing)),
     r |-> FloatText(2 * st.dot_radius),
     fill |-> DotColor(d, i, j, st)]

SvgDocument(d, st, width, height) ==
    LET rows == Len(d)
        cols == Len(d[1])
    IN  [kind |-> "SVG", width |-> Digits(width), height |-> Digits(height),
         viewBox |-> <<Digits(0), Digits(0), Digits(width), Digits(height)>>,
         rect |-> [width |-> "100%", height |-> "100%", fill |-> st.bg_color],
         circles |-> [k \in 1..(rows * cols) |->
                         SvgCircle(d, RowOf(k, cols), ColOf(k, cols), st)]]

(***************************************************************************)
(* pick_color: "#{:02x}{:02x}{:02x}".format(int(r), int(g), int(b))        *)
(***************************************************************************)
HexDigit == <<"0", "1", "2", "3", "4", "5", "6", "7",
              "8", "9", "a", "b", "c", "d", "e", "f">>

\* "{:02x}".format(n), 0 <= n <= 255
Hex2(n) == HexDigit[(n \div 16) + 1] \o HexDigit[(n % 16) + 1]

HexColor(rgb) == "#" \o Hex2(rgb[1]) \o Hex2(rgb[2]) \o Hex2(rgb[3])

(***************************************************************************)
(* What the user and the file system can offer                             *)
(***************************************************************************)
\* the texts a CSV cell is drawn from
CellTexts ==
    {<<>>, <<" ">>, <<"0">>, <<"0", "0">>, <<"x">>, <<"1">>, <<" ", "0", "\t">>}

RECURSIVE Sum(_)
Sum(l) == IF l = <<>> THEN 0 ELSE Head(l) + Sum(Tail(l))

\* the row lengths of a CSV file: at most MaxRows rows, MaxCells cells in all
RowLengths ==
    {l \in UNION {[1..n -> 0..MaxCells] : n \in 0..MaxRows} : Sum(l) <= MaxCells}

\* the cells c cut into rows of the lengths l
RECURSIVE Cut(_, _)
Cut(c, l) ==
    IF l = <<>> THEN <<>>
    ELSE <<SubSeq(c, 1, Head(l))>> \o Cut(SubSeq(c, Head(l) + 1, Len(c)), Tail(l))

\* a file that cannot be opened or read
Unreadable == [readable |-> FALSE, rows |-> <<>>]

CsvFile(raw) == [readable |-> TRUE, rows |-> raw]

\* the CSV files the user swaps in between two loads
CsvSamples ==
    {Unreadable,
     CsvFile(<< << <<" ">> >>, <<>> >>),
     CsvFile(<< << <<"1">>, <<"0">> >>, << <<"0">>, <<"1">> >> >>),
     CsvFile(<< << <<"x">> >>, << <<" ">>, <<>> >>,
                << <<"0">>, <<"0", "0">>, <<" ", "1">> >> >>)}

\* slider positions, in 1/Q: radius within [2.0, 30.0], spacing within [8.0, 60.0]
Radii == {DefaultRadius * Q, 9 * Q + 1}
Spacings == {DefaultSpacing * Q, DefaultSpacing * Q + 2}

\* what colorchooser.askcolor returns as its colour
ColorChoices == {<<255, 0, 85>>}

\* what can go wrong while a file is written
Faults == {"none", "open", "write"}

(***************************************************************************)
(* State                                                                   *)
(***************************************************************************)
VARIABLES
    data,            \* self.data
    dot_radius,      \* self.dot_radius, in 1/Q
    spacing,         \* self.spacing, in 1/Q
    bg_color,        \* self.bg_color
    inactive_color,  \* self.inactive_color
    active_color,    \* self.active_color
    export_format,   \* self.export_format
    canvas,          \* self.canvas: its size, background and items
    csvfile,         \* the CSV file the user selects in load_csv
    outfile,         \* the file at the path selected in the step just taken,
                     \* before and after it
    rows,            \* load_csv's rows as read in the step just taken
    msg              \* the message box the step just taken showed

vars == <<data, dot_radius, spacing, bg_color, inactive_color, active_color,
          export_format, canvas, csvfile, outfile, rows, msg>>

Style == [dot_radius |-> dot_radius, spacing |-> spacing, bg_color |-> bg_color,
          inactive_color |-> inactive_color, active_color |-> active_color]

NoMsg == [title |-> "", text |-> ""]
NoRows == [read |-> FALSE, rows |-> <<>>]

Absent == [state |-> "absent"]
Truncated == [state |-> "truncated"]
Complete(doc) == [state |-> "complete", doc |-> doc]
NoFile == [selected |-> FALSE, before |-> Absent, after |-> Absent]

\* [[0 for _ in range(20)] for _ in range(10)]
EmptyGrid == [i \in 1..DefaultRows |-> [j \in 1..DefaultCols |-> 0]]

\* the rectangular grids of at most MaxSide rows and MaxSide columns, those
\* without rows or without columns among them
AnyGrids ==
    UNION {[1..m -> [1..n -> {0, 1}]] : m \in 0..MaxSide, n \in 0..MaxSide}

\* __init__, with self.data one of the grids D
Start(D) ==
    /\ data \in D
    /\ dot_radius = DefaultRadius * Q
    /\ spacing = DefaultSpacing * Q
    /\ bg_color = DefaultBg
    /\ inactive_color = DefaultInactive
    /\ active_color = DefaultActive
    /\ export_format = "PNG"
    /\ canvas = DrawGrid(FreshCanvas(DefaultBg), data, Style)
    /\ outfile = NoFile
    /\ rows = NoRows
    /\ msg = NoMsg

\* the application as constructed
Init ==
    /\ Start({EmptyGrid})
    /\ csvfile \in CsvSamples

\* the application as constructed, beside any CSV file within the bounds: the
\* cells c cut into rows of the lengths l, as csv.reader returns them
InitIngest ==
    /\ Start({EmptyGrid})
    /\ \E l \in RowLengths :
           \E c \in [1..Sum(l) -> CellTexts] : csvfile = CsvFile(Cut(c, l))

\* the drawing and export code on any grid it can be handed
InitLayout ==
    /\ Start(AnyGrids)
    /\ csvfile = Unreadable

(***************************************************************************)
(* Handlers                                                                *)
(***************************************************************************)
ErrorBox(text) == [title |-> "Error", text |-> text]
SavedBox == [title |-> "Saved", text |-> "Image saved to"]

\* reset_grid
ResetGrid ==
    /\ data' = EmptyGrid
    /\ canvas' = DrawGrid(canvas, data', Style)
    /\ rows' = NoRows
    /\ msg' = NoMsg
    /\ outfile' = NoFile
    /\ UNCHANGED <<dot_radius, spacing, bg_color, inactive_color, active_color,
                   export_format, csvfile>>

\* self.data assigned before the check for an empty file
LoadedDataUnguarded(old, rs) == IF rs = <<>> THEN <<>> ELSE Ingest(rs)

\* self.data after load_csv has read a file: old is self.data before, rs the
\* rows left by the filter
LoadedData(old, rs) == IF rs = <<>> THEN old ELSE Ingest(rs)

\* load_csv; the user cancels the file dialog or selects csvfile
LoadCsv ==
    \E cancelled \in BOOLEAN :
        /\ IF cancelled
           THEN /\ rows' = NoRows
                /\ msg' = NoMsg
                /\ UNCHANGED <<data, canvas>>
           ELSE IF ~csvfile.readable
           THEN /\ rows' = NoRows
                /\ msg' = ErrorBox("Failed to read CSV")
                /\ UNCHANGED <<data, canvas>>
           ELSE LET rs == SurvivingRows(csvfile.rows)
                IN  /\ rows' = [read |-> TRUE, rows |-> csvfile.rows]
                    /\ data' = LoadedData(data, rs)
                    /\ IF rs = <<>>
                       THEN /\ msg' = ErrorBox("CSV file appears to be empty.")
                            /\ UNCHANGED canvas
                       ELSE /\ msg' = NoMsg
                            /\ canvas' = DrawGrid(canvas, data', Style)
        /\ outfile' = NoFile
        /\ UNCHANGED <<dot_radius, spacing, bg_color, inactive_color, active_color,
                       export_format, csvfile>>

\* pick_color(kind); the user cancels the chooser (rgb = <<>>) or picks a colour
PickColor ==
    \E kind \in {"bg", "inactive", "active"}, rgb \in {<<>>} \cup ColorChoices :
        /\ IF rgb = <<>>
           THEN UNCHANGED <<bg_color, inactive_color, active_color, canvas>>
           ELSE LET hex_color == HexColor(rgb)
                IN  /\ bg_color' = IF kind = "bg" THEN hex_color ELSE bg_color
                    /\ inactive_color' =
                           IF kind = "inactive" THEN hex_color ELSE inactive_color
                    /\ active_color' =
                           IF kind = "active" THEN hex_color ELSE active_color
                    /\ canvas' = DrawGrid(canvas, data,
                                          [Style EXCEPT !.bg_color = bg_color',
                                                        !.inactive_color = inactive_color',
                                                        !.active_color = active_color'])
        /\ rows' = NoRows
        /\ msg' = NoMsg
        /\ outfile' = NoFile
        /\ UNCHANGED <<data, dot_radius, spacing, export_format, csvfile>>

\* the radius slider: the variable is set, then command=draw_grid
SetRadius ==
    \E v \in Radii :
        /\ dot_radius' = v
        /\ canvas' = DrawGrid(canvas, data, [Style EXCEPT !.dot_radius = v])
        /\ rows' = NoRows
        /\ msg' = NoMsg
        /\ outfile' = NoFile
        /\ UNCHANGED <<data, spacing, bg_color, inactive_color, active_color,
                       export_format, csvfile>>

\* the spacing slider: the variable is set, then command=draw_grid
SetSpacing ==
    \E v \in Spacings :
        /\ spacing' = v
        /\ canvas' = DrawGrid(canvas, data, [Style EXCEPT !.spacing = v])
        /\ rows' = NoRows
        /\ msg' = NoMsg
        /\ outfile' = NoFile
        /\ UNCHANGED <<data, dot_radius, bg_color, inactive_color, active_color,
                       export_format, csvfile>>

\* the format combobox, bound to self.export_format
SetFormat ==
    \E f \in Formats :
        /\ export_format' = f
        /\ rows' = NoRows
        /\ msg' = NoMsg
        /\ outfile' = NoFile
        /\ UNCHANGED <<data, dot_radius, spacing, bg_color, inactive_color,
                       active_color, canvas, csvfile>>

\* the user puts another CSV file in place
EditCsv ==
    /\ csvfile' \in CsvSamples
    /\ rows' = NoRows
    /\ msg' = NoMsg
    /\ outfile' = NoFile
    /\ UNCHANGED <<data, dot_radius, spacing, bg_color, inactive_color,
                   active_color, export_format, canvas>>

\* a file found at the selected path that this export did not write
OtherDoc == [kind |-> "other"]

\* what can be at the path the user selects, before the export
PriorFiles == {Absent, Complete(OtherDoc)}

\* img.save(path, format=fmt) and open(path, "w") ... f.write(svg_str): the
\* files that can be at path afterwards.  Both open the path for writing,
\* which empties a file that exists, and write into it; Pillow removes a file
\* it created itself when the encoder raises (older versions leave it).
WriteFile(old, fmt, doc, fault) ==
    CASE fault = "none" -> {Complete(doc)}
      [] fault = "open" -> {old}
      [] fault = "write" ->
            IF fmt \in {"PNG", "JPEG"} /\ old = Absent
            THEN {Absent, Truncated}
            ELSE {Truncated}

\* the document the chosen backend writes
ExportDocument(d, st, fmt, width, height) ==
    IF fmt \in {"PNG", "JPEG"}
    THEN RasterImage(d, st, fmt, width, height)
    ELSE SvgDocument(d, st, width, height)

\* what the save dialog and the file system offer one export: the dialog is
\* cancelled, or a path is selected with the file old at it
ExportChoices ==
    {[cancelled |-> TRUE, old |-> Absent, fault |-> "none"]} \cup
    [cancelled : {FALSE}, old : PriorFiles, fault : Faults]

\* export_image
ExportImage ==
    LET dim == GridDimensions(data, dot_radius, spacing)
        fmt == export_format
        doc == ExportDocument(data, Style, fmt, dim.width, dim.height)
    IN  /\ IF data = <<>> \/ dim.rows = 0 \/ dim.cols = 0
           THEN /\ msg' = ErrorBox("No data to export.")
                /\ outfile' = NoFile
           ELSE \E ch \in ExportChoices :
                    IF ch.cancelled
                    THEN /\ msg' = NoMsg
                         /\ outfile' = NoFile
                    ELSE /\ \E new \in WriteFile(ch.old, fmt, doc, ch.fault) :
                                outfile' = [selected |-> TRUE, before |-> ch.old,
                                            after |-> new]
                         /\ msg' = IF ch.fault = "none"
                                   THEN SavedBox
                                   ELSE ErrorBox("Failed to save image")
        /\ rows' = NoRows
        /\ UNCHANGED <<data, dot_radius, spacing, bg_color, inactive_color,
                       active_color, export_format, canvas, csvfile>>

Next ==
    \/ ResetGrid
    \/ LoadCsv
    \/ PickColor
    \/ SetRadius
    \/ SetSpacing
    \/ SetFormat
    \/ EditCsv
    \/ ExportImage

Spec == Init /\ [][Next]_vars

\* loading alone, of any CSV file within the bounds
NextIngest == LoadCsv

SpecIngest == InitIngest /\ [][NextIngest]_vars

\* drawing and exporting alone, from any grid
NextLayout ==
    \/ SetSpacing
    \/ SetFormat
    \/ ExportImage

SpecLayout == InitLayout /\ [][NextLayout]_vars

(***************************************************************************)
(* Properties of load_csv, stated on the text of the file as read          *)
(***************************************************************************)
\* the text has a character that is not whitespace: its trimmed value is
\* not empty
HasText(cell) == \E k \in 1..Len(cell) : cell[k] \notin Whitespace

\* the text is one "0" between whitespace: its trimmed value is "0"
TrimsToZero(cell) ==
    \E k \in 1..Len(cell) :
        /\ cell[k] = "0"
        /\ \A m \in 1..Len(cell) : m # k => cell[m] \in Whitespace

ActiveText(cell) == HasText(cell) /\ ~TrimsToZero(cell)

\* the rows of raw that have a cell with text
Kept(raw) == {i \in 1..Len(raw) : \E k \in 1..Len(raw[i]) : HasText(raw[i][k])}

\* the n-th of them, in the order of the file
NthKept(raw, n) ==
    CHOOSE i \in Kept(raw) : Cardinality({m \in Kept(raw) : m <= i}) = n

\* the most cells of a kept row
WidestKept(raw) ==
    CHOOSE w \in {Len(raw[i]) : i \in Kept(raw)} :
        \A i \in Kept(raw) : Len(raw[i]) <= w

\* the step just taken was load_csv, and it replaced the grid
Loaded == rows.read /\ msg = NoMsg

\* C1: after a load, every cell of the grid, the padding included, is 1 if
\* and only if the cell of the file it comes from has a trimmed text that is
\* neither empty nor "0"; a padding cell comes from the empty text.
C1_CellRule ==
    Loaded =>
        \A n \in 1..Len(data) : \A j \in 1..Len(data[n]) :
            /\ n <= Cardinality(Kept(rows.rows))
            /\ data[n][j] \in {0, 1}
            /\ LET r == rows.rows[NthKept(rows.rows, n)]
                   text == IF j <= Len(r) THEN r[j] ELSE <<>>
               IN  data[n][j] = 1 <=> ActiveText(text)

\* a load of "00" beside " 0<tab>" over "x": 1 0 over 1 and a padding cell
C1_Witness ==
    /\ Loaded
    /\ rows.rows = << << <<"0", "0">>, <<" ", "0", "\t">> >>, << <<"x">> >> >>
    /\ data = << <<1, 0>>, <<1, 0>> >>

\* C2: a file with a row that has text is loaded, and the grid is
\* rectangular: one row for each row of the file that has text, in the
\* order of the file, each as long as the longest of those rows, the cells
\* past the end of a short row being 0.
C2_Rectangular ==
    (rows.read /\ Kept(rows.rows) # {}) =>
        /\ msg = NoMsg
        /\ Len(data) = Cardinality(Kept(rows.rows))
        /\ \A n \in 1..Len(data) :
               LET r == rows.rows[NthKept(rows.rows, n)]
               IN  /\ Len(data[n]) = WidestKept(rows.rows)
                   /\ \A j \in 1..Len(data[n]) :
                          IF j <= Len(r)
                          THEN data[n][j] = 1 <=> ActiveText(r[j])
                          ELSE data[n][j] = 0

\* a row of "0" alone is kept and padded, an empty row is dropped, and a
\* longer row follows
C2_Witness ==
    /\ Loaded
    /\ rows.rows = << << <<"0">> >>, <<>>, << <<"x">>, <<"1">> >> >>
    /\ data = << <<0, 0>>, <<1, 1>> >>

\* no row of the file has text
Blank(raw) == Kept(raw) = {}

\* C3: a load_csv that reads a file without text, or cannot read its file,
\* shows an error and leaves the grid (and the preview) as they were.
C3_FailedLoadKeepsGrid ==
    [][((rows'.read /\ Blank(rows'.rows)) \/ msg' = ErrorBox("Failed to read CSV"))
          => /\ msg'.title = "Error"
             /\ data' = data
             /\ canvas' = canvas]_vars

\* a file of blanks was read while the grid was one loaded earlier
C3_Witness ==
    /\ rows.read
    /\ Blank(rows.rows)
    /\ msg = ErrorBox("CSV file appears to be empty.")
    /\ data # EmptyGrid

\* C4: when an export fails after its path was selected, a complete file
\* that was at the path is still there, as it was.
C4_FailedExportKeepsFile ==
    (outfile.selected /\ msg = ErrorBox("Failed to save image")
        /\ outfile.before.state = "complete")
        => outfile.after = outfile.before

(***************************************************************************)
(* What each backend drew, read back from its output.  A centre and a      *)
(* radius are counts of 1/(4*Q): twice the counts of 1/(2*Q) above.        *)
(***************************************************************************)
\* the ellipse inscribed in the box b
BoxCircle(b, fill) ==
    [cx |-> b[1] + b[3], cy |-> b[2] + b[4],
     rx |-> b[3] - b[1], ry |-> b[4] - b[2], fill |-> fill]

RECURSIVE DigitsValue(_)
DigitsValue(ds) ==
    IF ds = <<>> THEN 0 ELSE 10 * DigitsValue(SubSeq(ds, 1, Len(ds) - 1)) + ds[Len(ds)]

RECURSIVE Pow10(_)
Pow10(n) == IF n = 0 THEN 1 ELSE 10 * Pow10(n - 1)

\* the number a decimal text denotes, as a count of 1/(4*Q); Exact: the
\* text denotes such a count
TextValue(t) ==
    4 * Q * DigitsValue(t.whole) + (4 * Q * DigitsValue(t.frac)) \div Pow10(Len(t.frac))
Exact(t) == (4 * Q * DigitsValue(t.frac)) % Pow10(Len(t.frac)) = 0

CanvasGeometry(c) ==
    [width |-> c.width, height |-> c.height, bg |-> c.bg,
     circles |-> [k \in 1..Len(c.items) |-> BoxCircle(c.items[k].bbox, c.items[k].fill)],
     outlined |-> \E k \in 1..Len(c.items) : c.items[k].outline # ""]

RasterGeometry(img) ==
    [width |-> img.width, height |-> img.height, bg |-> img.bg,
     circles |-> [k \in 1..Len(img.shapes) |->
                     BoxCircle(img.shapes[k].bbox, img.shapes[k].fill)],
     outlined |-> \E k \in 1..Len(img.shapes) : img.shapes[k].outline # "None"]

SvgGeometry(doc) ==
    [width |-> DigitsValue(doc.width), height |-> DigitsValue(doc.height),
     bg |-> doc.rect.fill,
     circles |-> [k \in 1..Len(doc.circles) |->
                     LET c == doc.circles[k]
                     IN  [cx |-> TextValue(c.cx), cy |-> TextValue(c.cy),
                          rx |-> TextValue(c.r), ry |-> TextValue(c.r),
                          fill |-> c.fill]],
     outlined |-> \E k \in 1..Len(doc.circles) : "stroke" \in DOMAIN doc.circles[k]]

\* the SVG texts denote their numbers exactly, and the background rectangle
\* and the viewBox cover the document
SvgWellFormed(doc) ==
    /\ \A k \in 1..Len(doc.circles) :
           Exact(doc.circles[k].cx) /\ Exact(doc.circles[k].cy) /\ Exact(doc.circles[k].r)
    /\ doc.viewBox = <<Digits(0), Digits(0), doc.width, doc.height>>
    /\ doc.rect.width = "100%" /\ doc.rect.height = "100%"

DocGeometry(doc) ==
    IF doc.kind = "SVG" THEN SvgGeometry(doc) ELSE RasterGeometry(doc)

Saved == outfile.selected /\ msg = SavedBox /\ outfile.after.state = "complete"

\* C5: a file just saved, raster image or SVG document, has the size and
\* background of the preview on the canvas and the same circles in the same
\* order (centre, radius, fill), and neither is outlined: as every format
\* can be saved from every state, the three backends agree with each other.
C5_BackendsAgree ==
    LET g == CanvasGeometry(canvas)
    IN  /\ ~g.outlined
        /\ \A k \in 1..Len(g.circles) : g.circles[k].rx = g.circles[k].ry
        /\ Saved =>
               /\ outfile.after.doc.kind = export_format
               /\ outfile.after.doc.kind = "SVG" => SvgWellFormed(outfile.after.doc)
               /\ DocGeometry(outfile.after.doc) = g

\* an SVG file saved from a loaded grid, with a picked colour and a spacing
\* that is not a whole number
C5_Witness ==
    /\ Saved
    /\ outfile.after.doc.kind = "SVG"
    /\ data # EmptyGrid
    /\ spacing % Q # 0
    /\ active_color # DefaultActive
    /\ Len(canvas.items) > 1

(***************************************************************************)
(* The layout laws, read from the canvas                                   *)
(***************************************************************************)
Rows == Len(data)
Cols == Len(data[1])

\* the circle drawn for cell (i, j), both 0-based
Dot(i, j) ==
    LET it == canvas.items[i * Cols + j + 1] IN BoxCircle(it.bbox, it.fill)

\* C6: rows*cols dots in row-major order; the dot at index i*cols + j has
\* its centre at (spacing/2 + j*spacing, spacing/2 + i*spacing), the one
\* radius of the style, and the active colour exactly when grid[i][j] is
\* active; along a row, neighbours are one spacing apart in x and level in y.
C6_DotOrder ==
    /\ Len(canvas.items) = Rows * Cols
    /\ \A i \in 0..(Rows - 1) : \A j \in 0..(Cols - 1) :
           /\ Dot(i, j).cx = 2 * spacing + 4 * j * spacing
           /\ Dot(i, j).cy = 2 * spacing + 4 * i * spacing
           /\ Dot(i, j).rx = 4 * dot_radius
           /\ Dot(i, j).ry = 4 * dot_radius
           /\ Dot(i, j).fill =
                  IF data[i + 1][j + 1] = 1 THEN active_color ELSE inactive_color
           /\ j > 0 => /\ Dot(i, j).cx - Dot(i, j - 1).cx = 4 * spacing
                       /\ Dot(i, j).cy = Dot(i, j - 1).cy

\* the grid [[1, 0], [0, 1]] at radius 6 and spacing 18: a canvas of 54 by
\* 54, centres (9, 9), (27, 9), (9, 27), (27, 27), colours active,
\* inactive, inactive, active
C6_Witness ==
    /\ data = << <<1, 0>>, <<0, 1>> >>
    /\ dot_radius = 6 * Q /\ spacing = 18 * Q
    /\ canvas.width = 54 /\ canvas.height = 54
    /\ [k \in 1..4 |-> <<Dot((k - 1) \div 2, (k - 1) % 2).cx,
                          Dot((k - 1) \div 2, (k - 1) % 2).cy>>]
          = << <<9 * 4 * Q, 9 * 4 * Q>>, <<27 * 4 * Q, 9 * 4 * Q>>,
               <<9 * 4 * Q, 27 * 4 * Q>>, <<27 * 4 * Q, 27 * 4 * Q>> >>
    /\ [k \in 1..4 |-> canvas.items[k].fill]
          = <<active_color, inactive_color, inactive_color, active_color>>
    /\ active_color # inactive_color

\* w is the floor of x / Q
IsFloor(w, x) == w * Q <= x /\ x < (w + 1) * Q

\* the width and height of a document
DocSize(doc) == <<DocGeometry(doc).width, DocGeometry(doc).height>>

\* the grid with every cell flipped
Flipped(d) == [i \in 1..Len(d) |-> [j \in 1..Len(d[i]) |-> 1 - d[i][j]]]

\* C7: the canvas is floor((cols+1)*s) wide and floor((rows+1)*s) high,
\* whatever the radius and the cell values, and a saved raster image or SVG
\* document has that size.
C7_CanvasSize ==
    /\ IsFloor(canvas.width, (Cols + 1) * spacing)
    /\ IsFloor(canvas.height, (Rows + 1) * spacing)
    /\ \A r \in Radii : \A d \in {data, Flipped(data)} :
           LET dim == GridDimensions(d, r, spacing)
           IN  dim.width = canvas.width /\ dim.height = canvas.height
    /\ Saved => DocSize(outfile.after.doc) = <<canvas.width, canvas.height>>

\* a file saved when neither (cols+1)*s nor (rows+1)*s is a whole number
C7_Witness ==
    /\ Saved
    /\ ((Cols + 1) * spacing) % Q # 0
    /\ ((Rows + 1) * spacing) % Q # 0
    /\ dot_radius # DefaultRadius * Q

\* the distance from the centres of the last column to the right edge of the
\* canvas, and from those of the last row to its bottom edge, in 1/(4*Q)
RightPad == 4 * Q * canvas.width - Dot(0, Cols - 1).cx
BottomPad == 4 * Q * canvas.height - Dot(Rows - 1, 0).cy

\* C8: the centres of the first column are spacing/2 from the left edge,
\* those of the last column spacing/2 from the right edge, and the same for
\* the first and last rows and the top and bottom edges.
C8_UniformPadding ==
    /\ \A i \in 0..(Rows - 1) : Dot(i, 0).cx = 2 * spacing
    /\ \A j \in 0..(Cols - 1) : Dot(0, j).cy = 2 * spacing
    /\ RightPad = 2 * spacing
    /\ BottomPad = 2 * spacing

\* C8 amended: the centres of the first column are spacing/2 from the left
\* edge and those of the first row spacing/2 from the top edge; the centres
\* of the last column are 3*spacing/2 from the right edge, less the fraction
\* dropped by the truncation of the canvas width: at most 3*spacing/2, more
\* than 3*spacing/2 - 1, and 3*spacing/2 exactly when (cols+1)*spacing is a
\* whole number; the same for the last row and the bottom edge.
C8_PaddingOneSided ==
    /\ \A i \in 0..(Rows - 1) : Dot(i, 0).cx = 2 * spacing
    /\ \A j \in 0..(Cols - 1) : Dot(0, j).cy = 2 * spacing
    /\ RightPad <= 6 * spacing /\ RightPad > 6 * spacing - 4 * Q
    /\ BottomPad <= 6 * spacing /\ BottomPad > 6 * spacing - 4 * Q
    /\ RightPad = 6 * spacing <=> ((Cols + 1) * spacing) % Q = 0
    /\ BottomPad = 6 * spacing <=> ((Rows + 1) * spacing) % Q = 0

\* a loaded grid drawn at a spacing that leaves a fraction on one axis only
C8_Witness ==
    /\ data # EmptyGrid
    /\ Len(canvas.items) = Rows * Cols
    /\ RightPad = 6 * spacing
    /\ BottomPad < 6 * spacing

C10_GridNeverEmpty ==
    /\ Len(data) >= 1
    /\ Len(data[1]) >= 1
    /\ \A i \in 1..Len(data) : Len(data[i]) = Len(data[1])
    /\ \A i \in 1..Len(data) : \A j \in 1..Len(data[i]) : data[i][j] \in {0, 1}
    /\ Len(canvas.items) = Len(data) * Len(data[1])
    /\ msg # ErrorBox("No data to export.")

\* a ragged file was loaded: a grid of 2 by 3, then exported
C10_Witness ==
    /\ Len(data) = 2 /\ Len(data[1]) = 3 /\ Len(data[2]) = 3
    /\ Saved

=============================================================================
